---------------------------- MODULE Spec2Model ----------------------------
(***************************************************************************)
(* A model of retrodep's working tree (src/retrodep/workingtree.go):       *)
(* PseudoVersion, VersionTags, NewWorkingTree/Close, Diff and              *)
(* StripImportComment.                                                     *)
(*                                                                         *)
(* Strings are sequences of one-character strings, so that slicing,        *)
(* concatenation, parsing and byte-wise comparison are computed as the     *)
(* code computes them.                                                     *)
(***************************************************************************)
EXTENDS Integers, Sequences, FiniteSets

VARIABLES
    calls,      \* PseudoVersion: the two calls under comparison, 1..2 -> call
    listing,    \* VersionTags: what wt.VCS.Tags(wt.Dir) returns
    vtOut,      \* VersionTags: the value returned
    fs,         \* the temporary directories that exist
    nextDir,    \* the name ioutil.TempDir hands out next
    wt,         \* the WorkingTree NewWorkingTree returned (Dir, VCS, hasher)
    closes,     \* how many times Close was called on wt
    removed,    \* how many times a Close found wt.Dir and removed it
    ret,        \* the last call on the tree and what it returned
    file,       \* the one file the checkout holds
    sicOut      \* StripImportComment: what was written to w, and the result

vars == <<calls, listing, vtOut, fs, nextDir, wt, closes, removed, ret, file, sicOut>>

(***************************************************************************)
(* Bytes and strings                                                       *)
(***************************************************************************)

\* The byte 0x60 (a back quote cannot be written inside a TLA+ string).
BackQuote == "BQ"

\* The bytes the model uses, in ascending byte order.
Ascii ==
    <<"\t", "\n", " ", "\"", "*", "+", "-", ".", "/",
      "0", "1", "2", "3", "4", "5", "6", "7", "8", "9",
      "A", "B", "C", "D", "E", "F", "G", "H", "I", "J", "K", "L", "M",
      "N", "O", "P", "Q", "R", "S", "T", "U", "V", "W", "X", "Y", "Z",
      "_", BackQuote,
      "a", "b", "c", "d", "e", "f", "g", "h", "i", "j", "k", "l", "m",
      "n", "o", "p", "q", "r", "s", "t", "u", "v", "w", "x", "y", "z">>

Ord(c) == CHOOSE i \in 1..68 : Ascii[i] = c

Digits == {"0", "1", "2", "3", "4", "5", "6", "7", "8", "9"}

Letters ==
    {"A", "B", "C", "D", "E", "F", "G", "H", "I", "J", "K", "L", "M",
     "N", "O", "P", "Q", "R", "S", "T", "U", "V", "W", "X", "Y", "Z",
     "a", "b", "c", "d", "e", "f", "g", "h", "i", "j", "k", "l", "m",
     "n", "o", "p", "q", "r", "s", "t", "u", "v", "w", "x", "y", "z"}

\* Go's string comparison s < o: byte-wise, a proper prefix is smaller.
RECURSIVE StrLess(_, _)
StrLess(s, o) ==
    IF o = <<>> THEN FALSE
    ELSE IF s = <<>> THEN TRUE
    ELSE IF s[1] # o[1] THEN Ord(s[1]) < Ord(o[1])
    ELSE StrLess(Tail(s), Tail(o))

\* The end (exclusive) of the longest run of bytes of set that starts at i.
RECURSIVE RunEnd(_, _, _)
RunEnd(s, i, set) ==
    IF i <= Len(s) /\ s[i] \in set THEN RunEnd(s, i + 1, set) ELSE i

\* s[i:j] of Go: the bytes at 1-based positions i .. j-1.
Slice(s, i, j) == SubSeq(s, i, j - 1)

HasPrefixAt(s, i, p) ==
    /\ i + Len(p) - 1 <= Len(s)
    /\ SubSeq(s, i, i + Len(p) - 1) = p

\* strconv: the decimal digits of n >= 0, and the value of a run of digits.
DigitOf(n) == <<"0", "1", "2", "3", "4", "5", "6", "7", "8", "9">>[n + 1]
DigitVal(c) == CHOOSE n \in 0..9 : DigitOf(n) = c

RECURSIVE Dec(_)
Dec(n) == IF n < 10 THEN <<DigitOf(n)>> ELSE Dec(n \div 10) \o <<DigitOf(n % 10)>>

RECURSIVE Atoi(_)
Atoi(s) == IF s = <<>> THEN 0 ELSE 10 * Atoi(SubSeq(s, 1, Len(s) - 1)) + DigitVal(s[Len(s)])

\* time's appendInt(b, n, width): n >= 0 zero-padded to at least width digits.
RECURSIVE Pad(_, _)
Pad(n, width) ==
    IF n < 10 /\ width <= 1 THEN <<DigitOf(n)>>
    ELSE Pad(n \div 10, width - 1) \o <<DigitOf(n % 10)>>

(***************************************************************************)
(* github.com/Masterminds/semver, as PseudoVersion and VersionTags use it  *)
(***************************************************************************)

PreChars == Letters \cup Digits \cup {"-"}

\* strings.Split(s, "."): the fields between the dots, empty ones included.
RECURSIVE Split(_)
Split(s) ==
    IF RunEnd(s, 1, PreChars) > Len(s) THEN <<s>>
    ELSE <<Slice(s, 1, RunEnd(s, 1, PreChars))>>
            \o Split(SubSeq(s, RunEnd(s, 1, PreChars) + 1, Len(s)))

\* [0-9A-Za-z\-]+(\.[0-9A-Za-z\-]+)* : dot-separated, no empty field.
RECURSIVE Dotted(_)
Dotted(s) ==
    /\ RunEnd(s, 1, PreChars) > 1
    /\ \/ RunEnd(s, 1, PreChars) > Len(s)
       \/ /\ s[RunEnd(s, 1, PreChars)] = "."
          /\ Dotted(SubSeq(s, RunEnd(s, 1, PreChars) + 1, Len(s)))

NoVersion == [ok |-> FALSE, major |-> 0, minor |-> 0, patch |-> 0, pre |-> <<>>, metadata |-> <<>>]

\* The end of an optional group of SemVerRegex that starts at i: sep and
\* then the bytes of set. It is i itself when the group is not there.
GroupEnd(tag, i, sep, set) ==
    IF i <= Len(tag) /\ tag[i] = sep THEN RunEnd(tag, i + 1, set) ELSE i

\* The groups of v?([0-9]+)(\.[0-9]+)?(\.[0-9]+)?(-pre)?(\+meta)? found
\* left to right in tag: p[1] is where the major number starts, p[2] where
\* it ends, p[3], p[4], p[5], p[6] where the minor, patch, prerelease and
\* metadata groups end.
RECURSIVE Groups(_, _)
Groups(tag, p) ==
    IF p = <<>> THEN Groups(tag, <<IF tag # <<>> /\ tag[1] = "v" THEN 2 ELSE 1>>)
    ELSE IF Len(p) = 1 THEN Groups(tag, Append(p, RunEnd(tag, p[1], Digits)))
    ELSE IF Len(p) = 2 THEN Groups(tag, Append(p, GroupEnd(tag, p[2], ".", Digits)))
    ELSE IF Len(p) = 3
    THEN Groups(tag, Append(p, IF p[3] > p[2] THEN GroupEnd(tag, p[3], ".", Digits) ELSE p[3]))
    ELSE IF Len(p) = 4 THEN Groups(tag, Append(p, GroupEnd(tag, p[4], "-", PreChars \cup {"."})))
    ELSE IF Len(p) = 5 THEN Groups(tag, Append(p, GroupEnd(tag, p[5], "+", PreChars \cup {"."})))
    ELSE p

\* The version of a tag whose groups end at p, when every group that is
\* there is well-formed and the last one ends the tag (^...$).
VersionAt(tag, p) ==
    IF /\ p[2] > p[1]
       /\ p[3] # p[2] + 1
       /\ p[4] # p[3] + 1
       /\ p[5] > p[4] => Dotted(Slice(tag, p[4] + 1, p[5]))
       /\ p[6] > p[5] => Dotted(Slice(tag, p[5] + 1, p[6]))
       /\ p[6] > Len(tag)
    THEN [ok |-> TRUE,
          major |-> Atoi(Slice(tag, p[1], p[2])),
          minor |-> Atoi(Slice(tag, p[2] + 1, p[3])),
          patch |-> Atoi(Slice(tag, p[3] + 1, p[4])),
          pre |-> Slice(tag, p[4] + 1, p[5]),
          metadata |-> Slice(tag, p[5] + 1, p[6])]
    ELSE NoVersion

\* semver.NewVersion(tag): tag matches ^SemVerRegex$; a missing minor or
\* patch number is 0.
NewVersion(tag) == VersionAt(tag, Groups(tag, <<>>))

\* Version.String(): major.minor.patch, then -pre and +metadata when present.
String(v) ==
    Dec(v.major) \o <<".">> \o Dec(v.minor) \o <<".">> \o Dec(v.patch)
        \o (IF v.pre # <<>> THEN <<"-">> \o v.pre ELSE <<>>)
        \o (IF v.metadata # <<>> THEN <<"+">> \o v.metadata ELSE <<>>)

\* Version.IncPatch() on a version without prerelease: the next patch, metadata dropped.
IncPatch(v) == [v EXCEPT !.patch = v.patch + 1, !.pre = <<>>, !.metadata = <<>>]

\* strconv.ParseInt(s, 10, 64) succeeds: an optional sign, then digits only.
IsInt(s) ==
    /\ s # <<>>
    /\ IF s[1] \in {"-", "+"}
       THEN Len(s) > 1 /\ RunEnd(s, 2, Digits) > Len(s)
       ELSE RunEnd(s, 1, Digits) > Len(s)

IntVal(s) ==
    IF s[1] = "-" THEN 0 - Atoi(Tail(s)) ELSE IF s[1] = "+" THEN Atoi(Tail(s)) ELSE Atoi(s)

\* semver's comparePrePart(s, o).
comparePrePart(s, o) ==
    IF s = o THEN 0
    ELSE IF s = <<>> THEN -1
    ELSE IF o = <<>> THEN 1
    ELSE IF ~IsInt(o) /\ ~IsInt(s) THEN (IF StrLess(o, s) THEN 1 ELSE -1)
    ELSE IF ~IsInt(o) THEN -1
    ELSE IF ~IsInt(s) THEN 1
    ELSE IF IntVal(s) > IntVal(o) THEN 1 ELSE -1

HeadOrEmpty(parts) == IF parts # <<>> THEN Head(parts) ELSE <<>>
TailOrEmpty(parts) == IF parts # <<>> THEN Tail(parts) ELSE <<>>

\* semver's comparePrerelease(v, o): field by field, a missing field read as "".
RECURSIVE comparePreParts(_, _)
comparePreParts(sparts, oparts) ==
    IF sparts = <<>> /\ oparts = <<>> THEN 0
    ELSE IF comparePrePart(HeadOrEmpty(sparts), HeadOrEmpty(oparts)) # 0
    THEN comparePrePart(HeadOrEmpty(sparts), HeadOrEmpty(oparts))
    ELSE comparePreParts(TailOrEmpty(sparts), TailOrEmpty(oparts))

comparePrerelease(v, o) == comparePreParts(Split(v), Split(o))

compareSegment(v, o) == IF v < o THEN -1 ELSE IF v > o THEN 1 ELSE 0

\* Version.Compare(o): major, minor, patch, then prerelease; metadata ignored.
Compare(v, o) ==
    IF compareSegment(v.major, o.major) # 0 THEN compareSegment(v.major, o.major)
    ELSE IF compareSegment(v.minor, o.minor) # 0 THEN compareSegment(v.minor, o.minor)
    ELSE IF compareSegment(v.patch, o.patch) # 0 THEN compareSegment(v.patch, o.patch)
    ELSE IF v.pre = <<>> /\ o.pre = <<>> THEN 0
    ELSE IF v.pre = <<>> THEN 1
    ELSE IF o.pre = <<>> THEN -1
    ELSE comparePrerelease(v.pre, o.pre)

LessThan(v, o) == Compare(v, o) < 0

(***************************************************************************)
(* time.Time and Time.Format("20060102150405")                             *)
(***************************************************************************)

\* A time.Time is an instant (seconds since 1970-01-01T00:00:00Z) and the
\* offset east of UTC of its location; Format prints the wall clock there.

\* The civil date of the day doe (0 .. 146096) of the 400-year era era,
\* eras counted from 0000-03-01; yoe is the year of the era, doy the day of
\* the year that starts on 1 March, mp the month counted from March.
DateOfMonth(era, yoe, doy, mp) ==
    [year |-> yoe + era * 400 + (IF mp >= 10 THEN 1 ELSE 0),
     month |-> IF mp < 10 THEN mp + 3 ELSE mp - 9,
     day |-> doy - (153 * mp + 2) \div 5 + 1]

DateOfDay(era, yoe, doy) == DateOfMonth(era, yoe, doy, (5 * doy + 2) \div 153)

DateOfYear(era, doe, yoe) ==
    DateOfDay(era, yoe, doe - (365 * yoe + yoe \div 4 - yoe \div 100))

DateOfEra(era, doe) ==
    DateOfYear(era, doe, (doe - doe \div 1460 + doe \div 36524 - doe \div 146096) \div 365)

\* Time.Date() of the day that is days after 1970-01-01.
CivilFromDays(days) ==
    DateOfEra((days + 719468) \div 146097, (days + 719468) % 146097)

FormatDate(date) == Pad(date.year, 4) \o Pad(date.month, 2) \o Pad(date.day, 2)

FormatClock(clock) ==
    Pad(clock \div 3600, 2) \o Pad((clock % 3600) \div 60, 2) \o Pad(clock % 60, 2)

\* t.Format("20060102150405")
Format(t) ==
    FormatDate(CivilFromDays((t.sec + t.off) \div 86400)) \o FormatClock((t.sec + t.off) % 86400)

(***************************************************************************)
(* PseudoVersion                                                           *)
(***************************************************************************)

Nil == "nil"
ErrorVersionNotFound == "ErrorVersionNotFound"

\* rev[:12]
RevPrefixLen == 12

\* "v0.0.0", the version of a revision no tag is reachable from.
ZeroVersion == <<"v", "0", ".", "0", ".", "0">>

\* Lines 202-215: the version and the suffix for the reachable tag, ver
\* being what semver.NewVersion made of it.
VersionOf_NoIncPatch(reachable, ver) ==
    IF ~ver.ok
    THEN [abort |-> FALSE, version |-> reachable, suffix |-> <<"-", "1", ".">>]
    ELSE IF ver.pre = <<>>
    THEN [abort |-> FALSE, version |-> <<"v">> \o String(ver), suffix |-> <<"-", "0", ".">>]
    ELSE [abort |-> FALSE, version |-> <<"v">> \o String(ver), suffix |-> <<".", "0", ".">>]

VersionOf_AddV(reachable, ver) ==
    IF ~ver.ok
    THEN [abort |-> FALSE, version |-> <<"v">> \o reachable, suffix |-> <<"-", "1", ".">>]
    ELSE IF ver.pre = <<>>
    THEN [abort |-> FALSE, version |-> <<"v">> \o String(IncPatch(ver)),
          suffix |-> <<"-", "0", ".">>]
    ELSE [abort |-> FALSE, version |-> <<"v">> \o String(ver), suffix |-> <<".", "0", ".">>]

VersionOf(reachable, ver) ==
    IF ~ver.ok
    THEN [abort |-> FALSE, version |-> reachable, suffix |-> <<"-", "1", ".">>]
    ELSE IF ver.pre = <<>>
    THEN [abort |-> FALSE, version |-> <<"v">> \o String(IncPatch(ver)),
          suffix |-> <<"-", "0", ".">>]
    ELSE [abort |-> FALSE, version |-> <<"v">> \o String(ver), suffix |-> <<".", "0", ".">>]

\* Lines 193-216: what d.ReachableTag(rev) returned decides the version and
\* the suffix, or ends the call (abort) with its error.
ResolveVersion_NotFoundFails(r) ==
    IF r.err # Nil
    THEN [abort |-> TRUE, version |-> <<>>, suffix |-> <<>>]
    ELSE VersionOf(r.tag, NewVersion(r.tag))

ResolveVersion_ErrorIgnored(r) ==
    IF r.err # Nil
    THEN [abort |-> FALSE, version |-> ZeroVersion, suffix |-> <<"-", "0", ".">>]
    ELSE VersionOf(r.tag, NewVersion(r.tag))

ResolveVersion(r) ==
    IF r.err = ErrorVersionNotFound
    THEN [abort |-> FALSE, version |-> ZeroVersion, suffix |-> <<"-", "0", ".">>]
    ELSE IF r.err # Nil
    THEN [abort |-> TRUE, version |-> <<>>, suffix |-> <<>>]
    ELSE VersionOf(r.tag, NewVersion(r.tag))

\* Lines 218-225: the commit time, and the pseudo-version put together.
Compose(base, d, rev) ==
    IF base.abort
    THEN [pseudo |-> <<>>, err |-> d.reachable.err, timeQueried |-> FALSE]
    ELSE IF d.time.err # Nil
    THEN [pseudo |-> <<>>, err |-> d.time.err, timeQueried |-> TRUE]
    ELSE [pseudo |-> base.version \o base.suffix \o Format(d.time.t)
                        \o <<"-">> \o SubSeq(rev, 1, RevPrefixLen),
          err |-> Nil, timeQueried |-> TRUE]

\* PseudoVersion(d, rev). d is what the Describable answers for rev:
\* d.reachable = (tag, err) of ReachableTag, d.time = (t, err) of
\* TimeFromRevision. timeQueried records whether TimeFromRevision was called.
PseudoVersion(d, rev) == Compose(ResolveVersion(d.reachable), d, rev)

\* The inputs of the model: tags, times and revisions.
Tag_v1_2_3 == <<"v", "1", ".", "2", ".", "3">>
Tag_v1_2_3_beta == <<"v", "1", ".", "2", ".", "3", "-", "b", "e", "t", "a">>
Tag_legacy == <<"l", "e", "g", "a", "c", "y", "-", "t", "a", "g", "-", "1">>
Tag_1_2 == <<"1", ".", "2">>
Tag_v1_2_x == <<"v", "1", ".", "2", ".", "x">>
Tag_v2_rc == <<"v", "2", ".", "0", ".", "0", "-", "r", "c", ".", "1", "+", "b", "7">>

PVTags == {Tag_v1_2_3, Tag_v1_2_3_beta, Tag_legacy, Tag_1_2, Tag_v1_2_x, Tag_v2_rc}

\* 2019-01-02T03:04:05Z
Epoch == 17898 * 86400 + 3 * 3600 + 4 * 60 + 5

\* The commit times are Epoch plus 0 .. MaxTick hours.
MaxTick == 2

ZoneOffsets == {0, 2 * 3600, 0 - 4 * 3600}

Times == {[sec |-> Epoch + k * 3600, off |-> o] : k \in 0..MaxTick, o \in ZoneOffsets}

NoTime == [sec |-> 0, off |-> 0]

\* Revisions are the 40 hexadecimal digits git and hg name a commit by.
RevA == <<"a", "b", "c", "d", "e", "f", "0", "1", "2", "3", "4", "5", "6", "7", "8", "9", "a", "b", "c", "d", "e", "f", "0", "1", "2", "3", "4", "5", "6", "7", "8", "9", "a", "b", "c", "d", "e", "f", "0", "1">>
RevB == <<"0", "1", "2", "3", "4", "5", "6", "7", "8", "9", "a", "b", "c", "d", "e", "f", "0", "1", "2", "3", "4", "5", "6", "7", "8", "9", "a", "b", "c", "d", "e", "f", "0", "1", "2", "3", "4", "5", "6", "7">>

Revs == {RevA, RevB}

ReachableResults ==
    {[tag |-> g, err |-> Nil] : g \in PVTags}
        \cup {[tag |-> <<>>, err |-> e] : e \in {ErrorVersionNotFound, "ErrReachableTag"}}

TimeResults ==
    {[t |-> x, err |-> Nil] : x \in Times} \cup {[t |-> NoTime, err |-> "ErrTimeFromRevision"]}

Describables == [reachable : ReachableResults, time : TimeResults]

Pending == [pseudo |-> <<>>, err |-> Nil, timeQueried |-> FALSE]

NoTree == [made |-> FALSE, Dir |-> 0, VCS |-> "", hasher |-> "", type |-> ""]

NoRet == [op |-> "none", err |-> Nil, arg |-> <<>>, val |-> FALSE, dir |-> 0, status |-> 0]

NoSic == [done |-> FALSE, path |-> <<>>, wOK |-> TRUE, changed |-> FALSE, err |-> Nil, out |-> <<>>]

NoFile == [lines |-> <<>>, finalNL |-> TRUE, bytes |-> <<>>]

NoListing == [tags |-> <<>>, err |-> Nil]

NoTags == [done |-> FALSE, tags |-> <<>>, err |-> Nil]

InitPV ==
    /\ calls \in [1..2 -> [d : Describables, rev : Revs, done : {FALSE}, out : {Pending}]]
    /\ listing = NoListing
    /\ vtOut = NoTags
    /\ fs = {}
    /\ nextDir = 1
    /\ wt = NoTree
    /\ closes = 0
    /\ removed = 0
    /\ ret = NoRet
    /\ file = NoFile
    /\ sicOut = NoSic

PseudoVersionCall(i) ==
    /\ ~calls[i].done
    /\ calls' = [calls EXCEPT ![i].done = TRUE,
                              ![i].out = PseudoVersion(calls[i].d, calls[i].rev)]
    /\ UNCHANGED <<listing, vtOut, fs, nextDir, wt, closes, removed, ret, file, sicOut>>

NextPV == \E i \in 1..2 : PseudoVersionCall(i)

SpecPV == InitPV /\ [][NextPV]_vars

(***************************************************************************)
(* Claims about PseudoVersion (checked under SpecPV)                       *)
(***************************************************************************)

TagParses(c) == c.d.reachable.err = Nil /\ NewVersion(c.d.reachable.tag).ok
TimeOK(c) == c.d.time.err = Nil

\* <timestamp>-<first 12 characters of rev>
Stamp(c) == Format(c.d.time.t) \o <<"-">> \o SubSeq(c.rev, 1, 12)

\* The spec's worked example: commit time 2019-01-02T03:04:05Z, revision abcdef012345...
IsExample(c) == c.d.time = [t |-> [sec |-> 1546398245, off |-> 0], err |-> Nil] /\ c.rev = RevA

\* C1: when ReachableTag gives a tag that parses as a semantic version and
\* TimeFromRevision succeeds, PseudoVersion returns no error and
\* v<major.minor.patch+1>-0.<timestamp>-<rev12> for a version without
\* prerelease, v<version unmodified>.0.<timestamp>-<rev12> for one with a
\* prerelease; v1.2.3 gives v1.2.4-0.<t>-<rev12>, v1.2.3-beta gives
\* v1.2.3-beta.0.<t>-<rev12>.
C1_SemverTag ==
    \A i \in 1..2 :
        LET c == calls[i]
            v == NewVersion(c.d.reachable.tag)
        IN  (c.done /\ TagParses(c) /\ TimeOK(c)) =>
                /\ c.out.err = Nil
                /\ v.pre = <<>> =>
                        c.out.pseudo = <<"v">> \o Dec(v.major) \o <<".">> \o Dec(v.minor)
                            \o <<".">> \o Dec(v.patch + 1) \o <<"-", "0", ".">> \o Stamp(c)
                /\ v.pre # <<>> =>
                        c.out.pseudo = <<"v">> \o String(v) \o <<".", "0", ".">> \o Stamp(c)
                /\ (IsExample(c) /\ c.d.reachable.tag = Tag_v1_2_3) =>
                        c.out.pseudo = <<"v", "1", ".", "2", ".", "4", "-", "0", ".", "2", "0", "1", "9", "0", "1", "0", "2", "0", "3", "0", "4", "0", "5", "-", "a", "b", "c", "d", "e", "f", "0", "1", "2", "3", "4", "5">>
                /\ (IsExample(c) /\ c.d.reachable.tag = Tag_v1_2_3_beta) =>
                        c.out.pseudo = <<"v", "1", ".", "2", ".", "3", "-", "b", "e", "t", "a", ".", "0", ".", "2", "0", "1", "9", "0", "1", "0", "2", "0", "3", "0", "4", "0", "5", "-", "a", "b", "c", "d", "e", "f", "0", "1", "2", "3", "4", "5">>

C1_Witness ==
    \E i \in 1..2 :
        /\ calls[i].done /\ IsExample(calls[i])
        /\ calls[i].d.reachable.tag = Tag_v1_2_3_beta
        /\ calls[i].out.pseudo = <<"v", "1", ".", "2", ".", "3", "-", "b", "e", "t", "a", ".", "0", ".", "2", "0", "1", "9", "0", "1", "0", "2", "0", "3", "0", "4", "0", "5", "-", "a", "b", "c", "d", "e", "f", "0", "1", "2", "3", "4", "5">>

\* C2: when ReachableTag reports ErrorVersionNotFound and TimeFromRevision
\* succeeds, PseudoVersion returns no error and exactly
\* "v0.0.0" + "-0." + <timestamp> + "-" + <rev12>.
C2_NoTag ==
    \A i \in 1..2 :
        LET c == calls[i]
        IN  (c.done /\ c.d.reachable.err = ErrorVersionNotFound /\ TimeOK(c)) =>
                /\ c.out.err = Nil
                /\ c.out.pseudo = <<"v", "0", ".", "0", ".", "0", "-", "0", ".">> \o Stamp(c)
                /\ IsExample(c) =>
                        c.out.pseudo = <<"v", "0", ".", "0", ".", "0", "-", "0", ".", "2", "0", "1", "9", "0", "1", "0", "2", "0", "3", "0", "4", "0", "5", "-", "a", "b", "c", "d", "e", "f", "0", "1", "2", "3", "4", "5">>

C2_Witness ==
    \E i \in 1..2 :
        /\ calls[i].done /\ IsExample(calls[i])
        /\ calls[i].d.reachable.err = ErrorVersionNotFound
        /\ calls[i].out = [pseudo |-> <<"v", "0", ".", "0", ".", "0", "-", "0", ".", "2", "0", "1", "9", "0", "1", "0", "2", "0", "3", "0", "4", "0", "5", "-", "a", "b", "c", "d", "e", "f", "0", "1", "2", "3", "4", "5">>,
                           err |-> Nil, timeQueried |-> TRUE]

\* C3: when ReachableTag gives a tag that does not parse as a semantic
\* version and TimeFromRevision succeeds, PseudoVersion returns no error and
\* the raw tag text (no "v" added) followed by "-1.", the timestamp, "-" and
\* the first 12 characters of rev.
C3_LegacyTag ==
    \A i \in 1..2 :
        LET c == calls[i]
        IN  (/\ c.done /\ c.d.reachable.err = Nil
             /\ ~NewVersion(c.d.reachable.tag).ok /\ TimeOK(c)) =>
                /\ c.out.err = Nil
                /\ c.out.pseudo = c.d.reachable.tag \o <<"-", "1", ".">> \o Stamp(c)
                /\ (IsExample(c) /\ c.d.reachable.tag = Tag_legacy) =>
                        c.out.pseudo = <<"l", "e", "g", "a", "c", "y", "-", "t", "a", "g", "-", "1", "-", "1", ".", "2", "0", "1", "9", "0", "1", "0", "2", "0", "3", "0", "4", "0", "5", "-", "a", "b", "c", "d", "e", "f", "0", "1", "2", "3", "4", "5">>

C3_Witness ==
    \E i \in 1..2 :
        /\ calls[i].done /\ IsExample(calls[i])
        /\ calls[i].d.reachable.tag = Tag_legacy
        /\ calls[i].out.pseudo = <<"l", "e", "g", "a", "c", "y", "-", "t", "a", "g", "-", "1", "-", "1", ".", "2", "0", "1", "9", "0", "1", "0", "2", "0", "3", "0", "4", "0", "5", "-", "a", "b", "c", "d", "e", "f", "0", "1", "2", "3", "4", "5">>

\* C4: PseudoVersion returns an error exactly when ReachableTag fails with an
\* error other than ErrorVersionNotFound or TimeFromRevision fails; the
\* string is then empty and the error is the collaborator's own; when
\* ReachableTag fails that way TimeFromRevision is not queried.
C4_Errors ==
    \A i \in 1..2 :
        LET c == calls[i]
            tagFails == c.d.reachable.err \notin {Nil, ErrorVersionNotFound}
        IN  c.done =>
                /\ c.out.err # Nil <=> (tagFails \/ c.d.time.err # Nil)
                /\ c.out.err # Nil => c.out.pseudo = <<>>
                /\ tagFails => c.out.err = c.d.reachable.err /\ ~c.out.timeQueried
                /\ (~tagFails /\ c.d.time.err # Nil) =>
                        c.out.err = c.d.time.err /\ c.out.timeQueried
                /\ c.out.err = Nil => c.out.pseudo # <<>>

C4_Witness ==
    \E i, j \in 1..2 :
        /\ calls[i].done /\ calls[i].d.reachable.err = "ErrReachableTag"
        /\ calls[i].out = [pseudo |-> <<>>, err |-> "ErrReachableTag", timeQueried |-> FALSE]
        /\ calls[j].done /\ calls[j].d.reachable.err = Nil
        /\ calls[j].out = [pseudo |-> <<>>, err |-> "ErrTimeFromRevision", timeQueried |-> TRUE]

\* The <version><suffix> text of a result: all but <timestamp>-<rev12>.
BaseOf(pseudo) == SubSeq(pseudo, 1, Len(pseudo) - (14 + 1 + 12))

\* C5: two PseudoVersion results with the same <version><suffix> text compare,
\* as strings, by commit time first and by the 12-character revision prefix
\* for equal commit times: the earlier commit has the smaller pseudo-version.
C5_OrderedByCommitTime ==
    \A i, j \in 1..2 :
        LET a == calls[i]
            b == calls[j]
        IN  (/\ a.done /\ b.done /\ a.out.err = Nil /\ b.out.err = Nil
             /\ BaseOf(a.out.pseudo) = BaseOf(b.out.pseudo)) =>
                /\ a.d.time.t.sec < b.d.time.t.sec => StrLess(a.out.pseudo, b.out.pseudo)
                /\ (/\ a.d.time.t.sec = b.d.time.t.sec
                    /\ StrLess(SubSeq(a.rev, 1, 12), SubSeq(b.rev, 1, 12))) =>
                        StrLess(a.out.pseudo, b.out.pseudo)

(***************************************************************************)
(* VersionTags                                                             *)
(***************************************************************************)

\* Lines 154-163: the tags that parse, in listing order, each with its
\* version. A version is a pointer in the code, so every tag keeps its own
\* entry, whatever the other tags parse to.
RECURSIVE ParsedTags(_)
ParsedTags(tags) ==
    IF tags = <<>> THEN <<>>
    ELSE (IF NewVersion(Head(tags)).ok
          THEN <<[v |-> NewVersion(Head(tags)), tag |-> Head(tags)]>>
          ELSE <<>>) \o ParsedTags(Tail(tags))

\* sort.Reverse(versions).Less(i, j) is versions.Less(j, i).
ReverseLess_NotReversed(a, b) == LessThan(a.v, b.v)

ReverseLess(a, b) == LessThan(b.v, a.v)

IndexOrders(n) == {p \in [1..n -> 1..n] : \A i, j \in 1..n : p[i] = p[j] => i = j}

\* sort.Sort is not stable: it leaves the entries in some order in which no
\* entry is Less than an earlier one. Every such order is a possible result.
Sorted(versions) ==
    {[i \in 1..Len(versions) |-> versions[p[i]]] : p \in
        {q \in IndexOrders(Len(versions)) :
            \A i, j \in 1..Len(versions) :
                i < j => ~ReverseLess(versions[q[j]], versions[q[i]])}}

\* VersionTags: the results the call can return for what wt.VCS.Tags returned.
VersionTags(l) ==
    IF l.err # Nil THEN {[tags |-> <<>>, err |-> l.err]}
    ELSE {[tags |-> [i \in 1..Len(sorted) |-> sorted[i].tag], err |-> Nil] :
            sorted \in Sorted(ParsedTags(l.tags))}

Tag_1_2_3 == <<"1", ".", "2", ".", "3">>
Tag_v1_10_0 == <<"v", "1", ".", "1", "0", ".", "0">>
Tag_v1_2_3_rc1 == <<"v", "1", ".", "2", ".", "3", "-", "r", "c", ".", "1">>

VTTags == {Tag_v1_2_3, Tag_1_2_3, Tag_v1_2_3_beta, Tag_v1_10_0, Tag_legacy, Tag_v1_2_3_rc1}

\* A listing holds at most MaxTags tags.
MaxTags == 3

\* The names of a repository's tags are distinct.
Listings ==
    UNION {{l \in [1..n -> VTTags] : \A i, j \in 1..n : l[i] = l[j] => i = j} : n \in 0..MaxTags}

InitVT ==
    /\ listing \in {[tags |-> l, err |-> Nil] : l \in Listings}
                        \cup {[tags |-> <<>>, err |-> "ErrTags"]}
    /\ vtOut = NoTags
    /\ calls = <<>>
    /\ fs = {}
    /\ nextDir = 1
    /\ wt = NoTree
    /\ closes = 0
    /\ removed = 0
    /\ ret = NoRet
    /\ file = NoFile
    /\ sicOut = NoSic

VersionTagsCall ==
    /\ ~vtOut.done
    /\ \E r \in VersionTags(listing) :
            vtOut' = [done |-> TRUE, tags |-> r.tags, err |-> r.err]
    /\ UNCHANGED <<calls, listing, fs, nextDir, wt, closes, removed, ret, file, sicOut>>

NextVT == VersionTagsCall

SpecVT == InitVT /\ [][NextVT]_vars

ParseableTags == {listing.tags[i] : i \in {k \in 1..Len(listing.tags) : NewVersion(listing.tags[k]).ok}}

OutVersion(k) == NewVersion(vtOut.tags[k])

\* Every parseable tag of the listing, once each, and nothing else.
ExactlyParseable ==
    /\ Len(vtOut.tags) = Cardinality(ParseableTags)
    /\ {vtOut.tags[k] : k \in 1..Len(vtOut.tags)} = ParseableTags

\* C6 as stated: VersionTags returns exactly the tags that parse as semantic
\* versions, each entry's version strictly greater than the next one's; no
\* parseable tag gives an empty result and no error.
C6_StrictlyDescending ==
    (vtOut.done /\ listing.err = Nil) =>
        /\ vtOut.err = Nil
        /\ ExactlyParseable
        /\ \A k \in 1..(Len(vtOut.tags) - 1) : Compare(OutVersion(k), OutVersion(k + 1)) > 0

\* C6 as amended: VersionTags returns exactly the tags that parse as semantic
\* versions, no entry's version smaller than the next one's, and strictly
\* greater unless the two tags parse to versions of equal precedence; no
\* parseable tag gives an empty result and no error.
C6_Descending ==
    (vtOut.done /\ listing.err = Nil) =>
        /\ vtOut.err = Nil
        /\ ExactlyParseable
        /\ \A k \in 1..(Len(vtOut.tags) - 1) :
                /\ Compare(OutVersion(k), OutVersion(k + 1)) >= 0
                /\ Compare(OutVersion(k), OutVersion(k + 1)) = 0 =>
                        /\ OutVersion(k).major = OutVersion(k + 1).major
                        /\ OutVersion(k).minor = OutVersion(k + 1).minor
                        /\ OutVersion(k).patch = OutVersion(k + 1).patch
                        /\ OutVersion(k).pre = OutVersion(k + 1).pre
        /\ ParseableTags = {} => vtOut.tags = <<>>

C6_Witness ==
    /\ vtOut.done
    /\ listing.tags = <<Tag_v1_2_3, Tag_legacy, Tag_v1_10_0>>
    /\ vtOut.tags = <<Tag_v1_10_0, Tag_v1_2_3>>
    /\ vtOut.err = Nil

(***************************************************************************)
(* removeImportComment and StripImportComment                              *)
(***************************************************************************)

Bytes == {Ascii[i] : i \in 1..68}

\* \s and \w of Go's regexp, within the bytes of the model.
Space == {"\t", "\n", " "}
Word == Letters \cup Digits \cup {"_"}

\* The pieces importCommentRE is made of: a literal, x+ and x* over a class
\* of bytes, a quoted string ("[^"]+" or the same between back quotes) and $.
Lit(s) == [kind |-> "lit", s |-> s, set |-> {}]
Plus(set) == [kind |-> "plus", s |-> <<>>, set |-> set]
Star(set) == [kind |-> "star", s |-> <<>>, set |-> set]
Quoted == [kind |-> "quoted", s |-> <<>>, set |-> {}]
EndOfText == [kind |-> "end", s |-> <<>>, set |-> {}]

\* quotedRE at i, h being where the bytes other than the opening quote end.
QuotedEnd(line, i, h) == IF h > i + 1 /\ h <= Len(line) THEN h + 1 ELSE 0

\* Where the piece ends when it matches at i, or 0. Every piece has one way
\* to match: the byte after a run is never in the run's class.
MatchItem(line, i, it) ==
    IF it.kind = "lit" THEN (IF HasPrefixAt(line, i, it.s) THEN i + Len(it.s) ELSE 0)
    ELSE IF it.kind = "plus"
    THEN (IF RunEnd(line, i, it.set) > i THEN RunEnd(line, i, it.set) ELSE 0)
    ELSE IF it.kind = "star" THEN RunEnd(line, i, it.set)
    ELSE IF it.kind = "quoted"
    THEN (IF i <= Len(line) /\ line[i] \in {"\"", BackQuote}
          THEN QuotedEnd(line, i, RunEnd(line, i + 1, Bytes \ {line[i]}))
          ELSE 0)
    ELSE (IF i > Len(line) THEN i ELSE 0)

RECURSIVE MatchSeq(_, _, _)
MatchSeq(line, i, items) ==
    IF i = 0 THEN 0
    ELSE IF items = <<>> THEN i
    ELSE MatchSeq(line, MatchItem(line, i, Head(items)), Tail(items))

\* importRE: \s*import\s+quotedRE\s*
importRE == <<Star(Space), Lit(<<"i", "m", "p", "o", "r", "t">>), Plus(Space), Quoted, Star(Space)>>

\* importCommentRE: ^(package\s+\w+)\s+(?://importRE$|/\*importRE\*/)(.*)
PackageClause == <<Lit(<<"p", "a", "c", "k", "a", "g", "e">>), Plus(Space), Plus(Word)>>
LineComment == <<Plus(Space), Lit(<<"/", "/">>)>> \o importRE \o <<EndOfText>>
BlockComment == <<Plus(Space), Lit(<<"/", "*">>)>> \o importRE \o <<Lit(<<"*", "/">>)>>

\* Where the comment that follows the package clause (ending at b) ends, or 0.
CommentEnd(line, b) ==
    IF MatchSeq(line, b, LineComment) # 0 THEN MatchSeq(line, b, LineComment)
    ELSE MatchSeq(line, b, BlockComment)

\* Lines 236-242: nil, or matches[1] followed by matches[2], for a package
\* clause that ends at b and a comment that ends at k.
Submatches(line, b, k) ==
    IF k = 0 THEN [matched |-> FALSE, repl |-> <<>>]
    ELSE [matched |-> TRUE, repl |-> Slice(line, 1, b) \o SubSeq(line, k, Len(line))]

removeImportCommentAt(line, b) == Submatches(line, b, CommentEnd(line, b))

\* removeImportComment(line)
removeImportComment(line) == removeImportCommentAt(line, MatchSeq(line, 1, PackageClause))

\* bytes.TrimRight(line, "\n")
RECURSIVE TrimRight(_)
TrimRight(line) ==
    IF line # <<>> /\ line[Len(line)] = "\n"
    THEN TrimRight(SubSeq(line, 1, Len(line) - 1))
    ELSE line

\* strings.HasSuffix(path, suffix)
HasSuffix(path, suffix) ==
    /\ Len(path) >= Len(suffix)
    /\ SubSeq(path, Len(path) - Len(suffix) + 1, Len(path)) = suffix

\* The length of what b.ReadBytes('\n') returns: the bytes up to and
\* including the next newline, or all that is left.
ReadBytes(unread) ==
    IF RunEnd(unread, 1, Bytes \ {"\n"}) > Len(unread) THEN Len(unread)
    ELSE RunEnd(unread, 1, Bytes \ {"\n"})

\* Lines 274-288 for a line that is not empty: what is written to w, and
\* whether the line makes the file changed.
EmitLine_NewlineNotCounted(line, nonl, repl) ==
    [written |-> (IF repl.matched THEN repl.repl ELSE nonl) \o <<"\n">>,
     changed |-> repl.matched]

EmitLine(line, nonl, repl) ==
    [written |-> (IF repl.matched THEN repl.repl ELSE nonl) \o <<"\n">>,
     changed |-> Len(nonl) = Len(line) \/ repl.matched]

TrimmedLine(line, nonl) == EmitLine(line, nonl, removeImportComment(nonl))

ProcessLine(line) == TrimmedLine(line, TrimRight(line))

\* The loop of lines 265-290 over the unread bytes.
RECURSIVE StripLines(_, _, _)
StripLinesWith(rest, p, out, changed) == StripLines(rest, out \o p.written, changed \/ p.changed)

StripLinesAt(unread, n, out, changed) ==
    StripLinesWith(SubSeq(unread, n + 1, Len(unread)), ProcessLine(SubSeq(unread, 1, n)),
                   out, changed)

StripLines(unread, out, changed) ==
    IF unread = <<>> THEN [out |-> out, changed |-> changed]
    ELSE StripLinesAt(unread, ReadBytes(unread), out, changed)

\* Lines 286-292: the first w.Write fails (wOK FALSE), or all is written.
Written(r, wOK) ==
    IF ~wOK /\ r.out # <<>>
    THEN [changed |-> FALSE, err |-> "StripImportComment: write", out |-> <<>>]
    ELSE [changed |-> r.changed, err |-> Nil, out |-> r.out]

\* StripImportComment(path, w) on a tree whose file at path holds content
\* (exists FALSE: os.Open fails); wOK: w.Write succeeds.
StripImportComment(path, exists, content, wOK) ==
    IF ~HasSuffix(path, <<".", "g", "o">>)
    THEN [changed |-> FALSE, err |-> Nil, out |-> <<>>]
    ELSE IF ~exists
    THEN [changed |-> FALSE, err |-> "StripImportComment: open", out |-> <<>>]
    ELSE Written(StripLines(content, <<>>, FALSE), wOK)

Path_README == <<"R", "E", "A", "D", "M", "E">>
Path_a_go == <<"a", ".", "g", "o">>
Path_b_go == <<"b", ".", "g", "o">>

\* a.go is the one file of the checkout; b.go is not in it.
Paths == {Path_README, Path_a_go, Path_b_go}

Line_package == <<"p", "a", "c", "k", "a", "g", "e", " ", "f", "o", "o">>
Line_slashes == <<"p", "a", "c", "k", "a", "g", "e", " ", "f", "o", "o", " ", "/", "/", " ", "i", "m", "p", "o", "r", "t", " ", "\"", "a", "/", "b", "\"">>
Line_block == <<"p", "a", "c", "k", "a", "g", "e", " ", "f", "o", "o", " ", "/", "*", " ", "i", "m", "p", "o", "r", "t", " ", "\"", "a", "/", "b", "\"", " ", "*", "/", " ", "/", "/", " ", "t">>
Line_block_rest == <<"p", "a", "c", "k", "a", "g", "e", " ", "f", "o", "o", " ", "/", "/", " ", "t">>
Line_backquote == <<"p", "a", "c", "k", "a", "g", "e", " ", "f", "o", "o", "\t", "/", "/", "i", "m", "p", "o", "r", "t", " ", BackQuote, "a", "/", "b", BackQuote, " ">>
Line_unquoted == <<"p", "a", "c", "k", "a", "g", "e", " ", "f", "o", "o", " ", "/", "/", " ", "i", "m", "p", "o", "r", "t", " ", "a", "/", "b">>
Line_empty == <<>>

LinePool == {Line_package, Line_slashes, Line_block, Line_backquote, Line_unquoted, Line_empty}

\* A file holds at most MaxLines lines.
MaxLines == 3

RECURSIVE Join(_)
Join(lines) == IF lines = <<>> THEN <<>> ELSE Head(lines) \o <<"\n">> \o Join(Tail(lines))

\* The bytes of the file with these lines, the last one with or without its newline.
FileBytes(lines, finalNL) ==
    IF finalNL \/ lines = <<>> THEN Join(lines)
    ELSE SubSeq(Join(lines), 1, Len(Join(lines)) - 1)

Files ==
    {[lines |-> l, finalNL |-> nl, bytes |-> FileBytes(l, nl)] :
        l \in UNION {[1..n -> LinePool] : n \in 0..MaxLines}, nl \in BOOLEAN}

(***************************************************************************)
(* NewWorkingTree, Close and the calls on a tree                           *)
(***************************************************************************)

ErrorUnknownVCS == "ErrorUnknownVCS"

\* project.VCS.Cmd: the version control systems golang.org/x/tools/go/vcs knows.
VCSCmds == {"git", "hg", "svn", "bzr"}

\* os.RemoveAll(dir): dir is gone afterwards, whether or not it existed.
RemoveAll(dirs, dir) == dirs \ {dir}

\* Lines 115-119: project.VCS.Create failed in the fresh directory dir.
CreateFailed_DirLeft(dirs, dir) == dirs \cup {dir}

CreateFailed(dirs, dir) == RemoveAll(dirs \cup {dir}, dir)

\* Lines 121-135: the tree for the backend, or ErrorUnknownVCS once the
\* directory is removed (wt.Close()).
SelectBackend(dirs, dir, cmd) ==
    IF cmd = "git"
    THEN [dirs |-> dirs \cup {dir}, err |-> Nil,
          tree |-> [made |-> TRUE, Dir |-> dir, VCS |-> cmd,
                    hasher |-> "gitHasher", type |-> "gitWorkingTree"]]
    ELSE IF cmd = "hg"
    THEN [dirs |-> dirs \cup {dir}, err |-> Nil,
          tree |-> [made |-> TRUE, Dir |-> dir, VCS |-> cmd,
                    hasher |-> "sha256Hasher", type |-> "hgWorkingTree"]]
    ELSE [dirs |-> RemoveAll(dirs \cup {dir}, dir), err |-> ErrorUnknownVCS, tree |-> NoTree]

\* NewWorkingTree(project) with the directories dirs in place, dir the name
\* ioutil.TempDir would hand out; tempDirOK and createOK: whether
\* ioutil.TempDir and project.VCS.Create succeed.
NewWorkingTree(dirs, dir, cmd, tempDirOK, createOK) ==
    IF ~tempDirOK THEN [dirs |-> dirs, err |-> "ErrTempDir", tree |-> NoTree]
    ELSE IF ~createOK THEN [dirs |-> CreateFailed(dirs, dir), err |-> "ErrCreate", tree |-> NoTree]
    ELSE SelectBackend(dirs, dir, cmd)

\* NewWorkingTree is tried at most MaxDirs times with a directory made.
MaxDirs == 3

\* Close is called at most MaxCloses times.
MaxCloses == 3

NewWorkingTreeCall(cmd, tempDirOK, createOK) ==
    /\ ~wt.made
    /\ nextDir <= MaxDirs
    /\ LET r == NewWorkingTree(fs, nextDir, cmd, tempDirOK, createOK)
       IN  /\ fs' = r.dirs
           /\ wt' = r.tree
           /\ nextDir' = IF tempDirOK THEN nextDir + 1 ELSE nextDir
           /\ ret' = [op |-> "NewWorkingTree", err |-> r.err, arg |-> cmd, val |-> createOK,
                      dir |-> IF tempDirOK THEN nextDir ELSE 0, status |-> 0]
    /\ UNCHANGED <<calls, listing, vtOut, closes, removed, file, sicOut>>

\* Close (lines 139-141): os.RemoveAll(wt.Dir), whose error is nil also
\* when the directory is already gone.
Close ==
    /\ wt.made
    /\ closes < MaxCloses
    /\ fs' = RemoveAll(fs, wt.Dir)
    /\ closes' = closes + 1
    /\ removed' = IF wt.Dir \in fs THEN removed + 1 ELSE removed
    /\ ret' = [op |-> "Close", err |-> Nil, arg |-> <<>>, val |-> wt.Dir \in fs, dir |-> wt.Dir,
               status |-> 0]
    /\ UNCHANGED <<calls, listing, vtOut, nextDir, wt, file, sicOut>>

\* TagSync (lines 143-145): the backend's command, run in wt.Dir. It cannot
\* run when the directory is gone; otherwise it succeeds or not with the tag.
TagSync(tagExists) ==
    /\ wt.made
    /\ ret' = [op |-> "TagSync",
               err |-> IF wt.Dir \in fs /\ tagExists THEN Nil ELSE "ErrTagSync",
               arg |-> <<>>, val |-> tagExists, dir |-> wt.Dir, status |-> 0]
    /\ UNCHANGED <<calls, listing, vtOut, fs, nextDir, wt, closes, removed, file, sicOut>>

\* StripImportComment(path, w): the checkout holds a.go for as long as
\* wt.Dir exists.
StripImportCommentCall(path, wOK) ==
    /\ wt.made
    /\ LET r == StripImportComment(path, wt.Dir \in fs /\ path = Path_a_go, file.bytes, wOK)
       IN  /\ sicOut' = [done |-> TRUE, path |-> path, wOK |-> wOK,
                         changed |-> r.changed, err |-> r.err, out |-> r.out]
           /\ ret' = [op |-> "StripImportComment", err |-> r.err, arg |-> path,
                      val |-> r.changed, dir |-> wt.Dir, status |-> 0]
    /\ UNCHANGED <<calls, listing, vtOut, fs, nextDir, wt, closes, removed, file>>

(***************************************************************************)
(* Diff                                                                    *)
(***************************************************************************)

\* The exit statuses of diff the model draws: 0 .. MaxExit.
MaxExit == 3

\* What p.Run() can end with: the command did not start (or its output
\* could not be copied), it was killed by a signal, or it exited with a status.
RunResults ==
    {[started |-> FALSE, exited |-> FALSE, status |-> 0],
     [started |-> TRUE, exited |-> FALSE, status |-> 0]}
        \cup {[started |-> TRUE, exited |-> TRUE, status |-> n] : n \in 0..MaxExit}

\* The error of p.Run(): nil for exit status 0, an *exec.ExitError for
\* another exit status or a signal, another error otherwise.
RunError(r) ==
    IF ~r.started THEN "ErrStart"
    ELSE IF ~r.exited THEN "ExitError: signal"
    ELSE IF r.status = 0 THEN Nil
    ELSE "ExitError: exit status"

\* What p.Run() ended with, as one number: the exit status, -1 for a
\* signal, -2 for a command that did not start.
RunStatus(r) == IF r.exited THEN r.status ELSE IF r.started THEN -1 ELSE -2

\* Lines 315-332: the result of Diff for what p.Run() ended with.
Diff_AnyExitDiffers(r) ==
    IF RunError(r) # Nil /\ r.started /\ r.exited
    THEN [changes |-> TRUE, err |-> Nil]
    ELSE [changes |-> FALSE, err |-> RunError(r)]

Diff(r) ==
    IF RunError(r) # Nil /\ r.started /\ r.exited /\ r.status = 1
    THEN [changes |-> TRUE, err |-> Nil]
    ELSE [changes |-> FALSE, err |-> RunError(r)]

DiffPaths == {<<>>, <<"/", "x">>, Path_a_go}

\* Diff(out, path, localFile): diff reads /dev/null for an empty path, path
\* itself when it starts with "/", and wt.Dir/path otherwise. With wt.Dir
\* gone diff cannot read wt.Dir/path: it exits with status 2, if it starts.
DiffCall(path, r) ==
    /\ wt.made
    /\ (path # <<>> /\ path[1] # "/" /\ wt.Dir \notin fs) =>
            (~r.started \/ (r.exited /\ r.status = 2))
    /\ ret' = [op |-> "Diff", err |-> Diff(r).err, arg |-> path, val |-> Diff(r).changes,
               dir |-> wt.Dir, status |-> RunStatus(r)]
    /\ UNCHANGED <<calls, listing, vtOut, fs, nextDir, wt, closes, removed, file, sicOut>>

\* The checkout's a.go in the life-cycle model.
SmallFile ==
    [lines |-> <<Line_slashes>>, finalNL |-> TRUE, bytes |-> FileBytes(<<Line_slashes>>, TRUE)]

Init ==
    /\ fs = {}
    /\ nextDir = 1
    /\ wt = NoTree
    /\ closes = 0
    /\ removed = 0
    /\ ret = NoRet
    /\ file = SmallFile
    /\ sicOut = NoSic
    /\ calls = <<>>
    /\ listing = NoListing
    /\ vtOut = NoTags

Next ==
    \/ \E cmd \in VCSCmds, tempDirOK, createOK \in BOOLEAN :
            NewWorkingTreeCall(cmd, tempDirOK, createOK)
    \/ Close
    \/ \E tagExists \in BOOLEAN : TagSync(tagExists)
    \/ \E path \in Paths, wOK \in BOOLEAN : StripImportCommentCall(path, wOK)
    \/ \E path \in DiffPaths, r \in RunResults : DiffCall(path, r)

Spec == Init /\ [][Next]_vars

\* StripImportComment on the files of the pool, in a tree just made.
InitSIC ==
    /\ fs = {1}
    /\ nextDir = 2
    /\ wt = SelectBackend({}, 1, "git").tree
    /\ closes = 0
    /\ removed = 0
    /\ ret = NoRet
    /\ file \in Files
    /\ sicOut = NoSic
    /\ calls = <<>>
    /\ listing = NoListing
    /\ vtOut = NoTags

NextSIC == \E path \in Paths, wOK \in BOOLEAN : StripImportCommentCall(path, wOK)

SpecSIC == InitSIC /\ [][NextSIC]_vars

(***************************************************************************)
(* Claims about the life cycle of a tree and about Diff (checked under     *)
(* Spec)                                                                   *)
(***************************************************************************)

\* Close is idempotent and the directory is released once: the checkout
\* directory exists until the first Close, is gone after it, and a later
\* Close returns nil and removes nothing.
CloseReleasesOnce ==
    /\ (wt.made /\ closes = 0) => wt.Dir \in fs /\ removed = 0
    /\ (wt.made /\ closes > 0) => wt.Dir \notin fs /\ removed = 1
    /\ ret.op = "Close" => ret.err = Nil /\ (ret.val <=> closes = 1)

\* C7: the checkout directory exists from creation until the first Close,
\* no operation on the tree is accepted after Close, and Close is
\* idempotent: the first Close removes the directory, a later one returns
\* no error and changes nothing, so the directory is released exactly once.
C7_Lifecycle ==
    /\ CloseReleasesOnce
    /\ (closes > 0 /\ ret.op \in {"TagSync", "StripImportComment", "Diff"}) => ret.err # Nil

\* C8: when NewWorkingTree fails after the temporary directory was made
\* (Create failed, or the backend is neither git nor hg), the directory is
\* gone and no tree is returned, the error being ErrorUnknownVCS for an
\* unknown backend; when it succeeds, exactly one directory exists, the
\* returned tree's, with gitHasher for git and sha256Hasher for hg.
C8_Construction ==
    ret.op = "NewWorkingTree" =>
        /\ (ret.err # Nil /\ ret.dir # 0) => ret.dir \notin fs
        /\ ret.err # Nil => wt = NoTree
        /\ ret.dir = 0 => ret.err # Nil
        /\ (ret.dir # 0 /\ ~ret.val) => ret.err # Nil
        /\ (ret.dir # 0 /\ ret.val /\ ret.arg \notin {"git", "hg"}) => ret.err = ErrorUnknownVCS
        /\ (ret.dir # 0 /\ ret.val /\ ret.arg \in {"git", "hg"}) => ret.err = Nil
        /\ ret.err = Nil =>
                /\ wt.made /\ wt.Dir = ret.dir /\ fs = {wt.Dir} /\ wt.VCS = ret.arg
                /\ ret.arg = "git" => wt.hasher = "gitHasher"
                /\ ret.arg = "hg" => wt.hasher = "sha256Hasher"

\* A tree for hg made at the third try, after Create failed and after an
\* unknown backend: the two earlier directories are gone.
C8_Witness ==
    /\ ret.op = "NewWorkingTree" /\ ret.err = Nil /\ ret.arg = "hg"
    /\ ret.dir = 3 /\ fs = {3}
    /\ wt.hasher = "sha256Hasher"

\* C9: Diff returns (false, nil) when diff exits with status 0, (true, nil)
\* when it exits with status 1, and an error in every other case (a
\* greater exit status, a signal, a command that did not start); true is
\* never returned together with an error.
C9_DiffStatus ==
    ret.op = "Diff" =>
        /\ ret.status = 0 => ~ret.val /\ ret.err = Nil
        /\ ret.status = 1 => ret.val /\ ret.err = Nil
        /\ ret.status \notin {0, 1} => ~ret.val /\ ret.err # Nil
        /\ ret.val => ret.err = Nil

C9_Witness ==
    /\ ret.op = "Diff" /\ ret.status = 1 /\ ret.val /\ ret.err = Nil
    /\ closes = 0 /\ ret.arg = Path_a_go

(***************************************************************************)
(* Claims about StripImportComment (checked under SpecSIC)                 *)
(***************************************************************************)

\* The lines of the pool that carry an import comment, and each line as
\* StripImportComment is to emit it.
Annotated == {Line_slashes, Line_block, Line_backquote}

Expected(l) ==
    IF l = Line_block THEN Line_block_rest
    ELSE IF l \in Annotated THEN Line_package
    ELSE l

\* The lines ReadBytes returns with at least one byte: all of them, but
\* for an empty last line that has no newline.
LinesRead ==
    IF ~file.finalNL /\ file.lines # <<>> /\ file.lines[Len(file.lines)] = <<>>
    THEN SubSeq(file.lines, 1, Len(file.lines) - 1)
    ELSE file.lines

LacksFinalNewline ==
    ~file.finalNL /\ file.lines # <<>> /\ file.lines[Len(file.lines)] # <<>>

====
